---- MODULE Spec2Model ----
(***************************************************************************)
(* Plivo <-> Daily SIP bridge: the in-memory call mapping                  *)
(* (plivo_handlers.py), the Plivo webhooks that read and clean it, and the *)
(* inbound call set-up pipeline (inbound-call/server.py).                  *)
(*                                                                         *)
(* Python strings are sequences of one-character strings, so that          *)
(* str.lstrip('+') is computed and not assumed.  Python's None is the      *)
(* value None below.  A signaling document is the structure of the XML the *)
(* handler formats (element kinds, attributes, text), with the f-string    *)
(* conversion of the interpolated values; the serialisation of the         *)
(* characters themselves is not modelled.                                  *)
(***************************************************************************)
EXTENDS Integers, Sequences, FiniteSets, TLC

VARIABLES
    call_to_sip_mapping,  \* plivo_handlers.call_to_sip_mapping, in dict (insertion) order
    bot_procs,            \* server.bot_procs
    inbound,              \* the handle_inbound_call coroutines, parked at their awaits
    pending,              \* an answer webhook received and not yet processed
    dialout,              \* the dial-out server (daily-plivo/server.py): its own
                          \* call_to_sip_mapping and bot_procs, its handle_outbound_call
                          \* coroutines and the calls it asked Plivo to place
    lifespan,             \* the dial-in server's lifespan: serving, or shutting down
                          \* with the workers it has terminated and waited for
    resp                  \* the response of the handler that returned last

vars == <<call_to_sip_mapping, bot_procs, inbound, pending, dialout, lifespan, resp>>

----------------------------------------------------------------------------
(* Python values *)

None == <<"None">>

EmptyStr == << >>

\* bool(x) of a str-or-None value
Truthy(x) == x # None /\ x # EmptyStr

\* str(x) as an f-string interpolates it
FormatValue(x) == IF x = None THEN <<"N", "o", "n", "e">> ELSE x

RECURSIVE lstrip(_)
\* s.lstrip('+'): every leading '+' is removed
lstrip(s) == IF s = EmptyStr THEN s
             ELSE IF Head(s) = "+" THEN lstrip(Tail(s)) ELSE s

\* x or y
PyOr(x, y) == IF Truthy(x) THEN x ELSE y

----------------------------------------------------------------------------
(* The dict call_to_sip_mapping: a sequence of entries with distinct keys,  *)
(* in insertion order.                                                      *)

NoMapping == [found |-> FALSE, sip_uri |-> None, phone_number |-> None]

Mapping(e) == [found |-> TRUE, sip_uri |-> e.sip_uri, phone_number |-> e.phone_number]

Keys(m) == {m[i].key : i \in 1..Len(m)}

IndexOf(m, k) == CHOOSE i \in 1..Len(m) : m[i].key = k

\* variant: the entry is always added at the end
DictSet_AlwaysAppend(m, k, sip, phone) ==
    Append(m, [key |-> k, sip_uri |-> sip, phone_number |-> phone])

\* d[k] = v: an existing key keeps its position, a new key goes last
DictSet(m, k, sip, phone) ==
    LET e == [key |-> k, sip_uri |-> sip, phone_number |-> phone]
    IN  IF k \in Keys(m)
        THEN [m EXCEPT ![IndexOf(m, k)] = e]
        ELSE Append(m, e)

\* variant: the entries that follow the key are dropped with it
DictDel_Truncate(m, k) == SubSeq(m, 1, IndexOf(m, k) - 1)

\* del d[k]
DictDel(m, k) ==
    LET i == IndexOf(m, k)
    IN  SubSeq(m, 1, i - 1) \o SubSeq(m, i + 1, Len(m))

store_call_mapping(m, call_id, sip_uri, phone_number) ==
    DictSet(m, call_id, sip_uri, phone_number)

get_call_mapping(m, call_uuid) ==
    IF call_uuid \in Keys(m) THEN Mapping(m[IndexOf(m, call_uuid)]) ELSE NoMapping

----------------------------------------------------------------------------
(* Signaling documents (Plivo XML) *)

DialTimeout == 30

\* variant: the dial document of create_plivo_dial_xml, which sets no timeout
DialXml_NoTimeout(caller_id, sip_uri) ==
    [kind |-> "Dial", callerId |-> FormatValue(caller_id), timeout |-> 0,
     user |-> FormatValue(sip_uri), speak |-> ""]

\* <Response><Dial callerId="{from_number}" timeout="30"><User>{sip_uri}</User></Dial></Response>
DialXml(caller_id, sip_uri) ==
    [kind |-> "Dial", callerId |-> FormatValue(caller_id), timeout |-> DialTimeout,
     user |-> FormatValue(sip_uri), speak |-> ""]

\* <Response><Speak>{text}</Speak><Hangup/></Response>
SpeakHangupXml(text) ==
    [kind |-> "SpeakHangup", callerId |-> None, timeout |-> 0, user |-> None,
     speak |-> text]

\* no document: the handler is parked at an await, or an exception left it
NoDoc == [kind |-> "none", callerId |-> None, timeout |-> 0, user |-> None, speak |-> ""]

AnswerErrorText == "Sorry, there was an error connecting your call."

FallbackText ==
    "We're sorry, but we're unable to connect your call at this time. Please try again later."

----------------------------------------------------------------------------
(* plivo_answer_handler *)

\* A webhook request: the form fields and the call_id query parameter, each a
\* string or None (absent); form_ok is whether `await request.form()` returns.
AnswerRequest(form_ok, call_uuid, from_number, to_number, call_id) ==
    [form_ok |-> form_ok, CallUUID |-> call_uuid, From |-> from_number,
     To |-> to_number, call_id |-> call_id]

\* variant: the CallUUID of the webhook is not tried
LookupByKeys_NoCallUUID(m, call_id, call_uuid, to_number) ==
    LET m1 == IF Truthy(call_id) THEN get_call_mapping(m, call_id) ELSE NoMapping
    IN  IF ~m1.found /\ Truthy(to_number)
        THEN LET m3a == get_call_mapping(m, to_number)
             IN  IF ~m3a.found THEN get_call_mapping(m, lstrip(to_number)) ELSE m3a
        ELSE m1

\* lines 68-88: by call_id, then by call_uuid, then by to_number with and without '+'
LookupByKeys(m, call_id, call_uuid, to_number) ==
    LET m1 == IF Truthy(call_id) THEN get_call_mapping(m, call_id) ELSE NoMapping
        m2 == IF ~m1.found /\ Truthy(call_uuid)
              THEN get_call_mapping(m, call_uuid) ELSE m1
        m3 == IF ~m2.found /\ Truthy(to_number)
              THEN LET m3a == get_call_mapping(m, to_number)
                   IN  IF ~m3a.found
                       THEN get_call_mapping(m, lstrip(to_number))
                       ELSE m3a
              ELSE m2
    IN  m3

\* variant: both numbers are stripped before they are compared
PhoneTest_StripBoth(stored_phone, to_number) ==
    IF stored_phone = to_number THEN "match"
    ELSE IF to_number = None \/ stored_phone = None THEN "raise"
    ELSE IF lstrip(stored_phone) = lstrip(to_number) THEN "match"
    ELSE "next"

\* line 96, one entry: "match", "next", or "raise" (AttributeError: to_number or
\* stored_phone is None where .lstrip is called), evaluated left to right
PhoneTest(stored_phone, to_number) ==
    IF stored_phone = to_number THEN "match"
    ELSE IF to_number = None THEN "raise"
    ELSE IF stored_phone = lstrip(to_number) THEN "match"
    ELSE IF stored_phone = None THEN "raise"
    ELSE IF lstrip(stored_phone) = to_number THEN "match"
    ELSE "next"

RECURSIVE ScanByPhone(_, _, _)
\* lines 93-99: for key, value in call_to_sip_mapping.items(), from entry i on
ScanByPhone(m, to_number, i) ==
    IF i > Len(m) THEN [raised |-> FALSE, mapping |-> NoMapping]
    ELSE LET t == PhoneTest(m[i].phone_number, to_number)
         IN  IF t = "match" THEN [raised |-> FALSE, mapping |-> Mapping(m[i])]
             ELSE IF t = "raise" THEN [raised |-> TRUE, mapping |-> NoMapping]
             ELSE ScanByPhone(m, to_number, i + 1)

\* lines 67-99
LookupMapping(m, call_id, call_uuid, to_number) ==
    LET byKey == LookupByKeys(m, call_id, call_uuid, to_number)
    IN  IF byKey.found THEN [raised |-> FALSE, mapping |-> byKey]
        ELSE ScanByPhone(m, to_number, 1)

\* variant: no try/except around the handler body
plivo_answer_handler_NoExcept(m, req) ==
    LET look == LookupMapping(m, req.call_id, req.CallUUID, req.To)
    IN  IF ~req.form_ok \/ look.raised
        THEN [doc |-> NoDoc, mapping |-> m]
        ELSE IF ~look.mapping.found
        THEN [doc |-> SpeakHangupXml(AnswerErrorText), mapping |-> m]
        ELSE [doc |-> DialXml(req.From, look.mapping.sip_uri), mapping |-> m]

\* lines 44-137: the document returned and the dict afterwards
plivo_answer_handler(m, req) ==
    LET look == LookupMapping(m, req.call_id, req.CallUUID, req.To)
    IN  IF ~req.form_ok \/ look.raised
        THEN [doc |-> SpeakHangupXml(AnswerErrorText), mapping |-> m]   \* except Exception
        ELSE IF ~look.mapping.found
        THEN [doc |-> SpeakHangupXml(AnswerErrorText), mapping |-> m]   \* lines 101-111
        ELSE [doc |-> DialXml(req.From, look.mapping.sip_uri), mapping |-> m]

----------------------------------------------------------------------------
(* plivo_hangup_handler, plivo_fallback_handler, store_call_mapping_endpoint *)

\* variant: the hangup removes every entry of the call, not only the CallUUID key
plivo_hangup_handler_WholeCall(m, call_uuid) ==
    IF call_uuid \in Keys(m)
    THEN LET sip == m[IndexOf(m, call_uuid)].sip_uri
         IN  SelectSeq(m, LAMBDA e : e.sip_uri # sip)
    ELSE m

\* lines 153-155: if call_uuid in call_to_sip_mapping: del call_to_sip_mapping[call_uuid]
plivo_hangup_handler(m, call_uuid) ==
    IF call_uuid \in Keys(m) THEN DictDel(m, call_uuid) ELSE m

\* variant: the fallback speaks the answer webhook's error message
plivo_fallback_handler_AnswerText == SpeakHangupXml(AnswerErrorText)

plivo_fallback_handler == SpeakHangupXml(FallbackText)

\* all([call_id, sip_uri, phone_number])
AllPresent(call_id, sip_uri, phone_number) ==
    Truthy(call_id) /\ Truthy(sip_uri) /\ Truthy(phone_number)

\* server.py lines 82-94; the HTTPException(400) is raised inside the try and
\* re-raised by `except Exception` as a 500
store_call_mapping_endpoint(m, call_id, sip_uri, phone_number) ==
    IF AllPresent(call_id, sip_uri, phone_number)
    THEN [status |-> 200, mapping |-> store_call_mapping(m, call_id, sip_uri, phone_number)]
    ELSE [status |-> 500, mapping |-> m]

----------------------------------------------------------------------------
(* handle_inbound_call: one coroutine per request, resumed at each await *)

ProcessingErrorText == "Sorry, there was an error processing your call."

RoomErrorText ==
    "Sorry, we're unable to connect your call at this time. Please try again later."

TokenErrorText == "Sorry, there was an error setting up your call."

SipErrorText == "Sorry, we're unable to connect your call. Please try again later."

UnexpectedErrorText ==
    "Sorry, there was an error processing your call. Please try again later."

\* variant: a call with a caller number is stored under the number keys only
InboundStore_NumbersOnly(m, call_uuid, sip_uri, from_number) ==
    IF Truthy(from_number)
    THEN store_call_mapping(
             store_call_mapping(m, from_number, sip_uri, from_number),
             lstrip(from_number), sip_uri, from_number)
    ELSE store_call_mapping(m, call_uuid, sip_uri, from_number)

\* variant: only the UUID key is written in this step
InboundStore_UUIDOnly(m, call_uuid, sip_uri, from_number) ==
    store_call_mapping(m, call_uuid, sip_uri, from_number)

\* variant: the caller's number is stored as received only, not without its '+'
InboundStore_NoBareKey(m, call_uuid, sip_uri, from_number) ==
    LET m1 == store_call_mapping(m, call_uuid, sip_uri, from_number)
    IN  IF Truthy(from_number)
        THEN store_call_mapping(m1, from_number, sip_uri, from_number)
        ELSE m1

\* lines 178-183: the writes of one call set-up
InboundStore(m, call_uuid, sip_uri, from_number) ==
    LET m1 == store_call_mapping(m, call_uuid, sip_uri, from_number)
    IN  IF Truthy(from_number)
        THEN store_call_mapping(
                 store_call_mapping(m1, from_number, sip_uri, from_number),
                 lstrip(from_number), sip_uri, from_number)
        ELSE m1

\* lines 202-210: the worker's command line
BotArgs(room_url, token, from_number, sip_uri) ==
    [u |-> room_url, t |-> token, n |-> PyOr(from_number, <<"unknown">>), s |-> sip_uri]

\* lines 230-237
InboundDialXml(from_number, to_number, sip_uri) ==
    DialXml(PyOr(from_number, to_number), sip_uri)

\* variant: the endpoint is used whether or not the configuration has one
SipUriOf_NoFallback(room_name, endpoint) == <<"sip:">> \o FormatValue(endpoint)

\* get_daily_sip_uri, lines 372-381, on a 200 response: endpoint is
\* config.sip_uri.endpoint or None
SipUriOf(room_name, endpoint) ==
    IF Truthy(endpoint) THEN <<"sip:">> \o endpoint
    ELSE <<"sip:">> \o room_name \o <<"@sip.daily.co">>

\* get_daily_sip_uri, lines 351-391: the status of Daily's response to
\* GET /rooms/{room_name} and, on 200, the endpoint its body gives (None when
\* config, config.sip_uri or the endpoint is missing)
get_daily_sip_uri(room_name, status, endpoint) ==
    IF status = 200 THEN SipUriOf(room_name, endpoint) ELSE None

----------------------------------------------------------------------------
(* Values of the model *)

A == <<"a">>
B == <<"b">>
N1 == <<"1">>
P1 == <<"+", "1">>
PP1 == <<"+", "+", "1">>
P2 == <<"+", "2">>

Room(name) == [url |-> <<"https://r/">> \o name, name |-> name]

NoRoom == [url |-> None, name |-> None]

Token == <<"tok">>

\* config.sip_uri.endpoint of a room, when Daily provides one
Endpoint(name) == name \o <<".0@daily">>

\* launched worker processes the model follows
MaxProcs == 1

NoRequest == [form_ok |-> FALSE, CallUUID |-> None, From |-> None, To |-> None,
              call_id |-> None, none |-> TRUE]

\* what the last step did: the response it returned, or the await it parked at
NoResp == [handler |-> "none", returned |-> FALSE]

----------------------------------------------------------------------------
(* Steps of handle_inbound_call *)

Coroutine(pc, call_uuid, from_number, to_number, room, token, sip_uri, trace) ==
    [pc |-> pc, CallUUID |-> call_uuid, From |-> from_number, To |-> to_number,
     room |-> room, token |-> token, sip_uri |-> sip_uri, trace |-> trace]

InboundReturn(c, step, doc, before) ==
    [handler |-> "inbound", returned |-> TRUE, step |-> step, call |-> c, doc |-> doc,
     before |-> before]

InboundParked(c, step, before) ==
    [handler |-> "inbound", returned |-> FALSE, step |-> step, call |-> c, doc |-> NoDoc,
     before |-> before]

\* variant: the CallUUID is not checked before the room is created
InboundReceive_NoUUIDCheck(form_ok, call_uuid, from_number, to_number) ==
    LET c == Coroutine("create_daily_room", call_uuid, from_number, to_number,
                       NoRoom, None, None, << >>)
    IN  /\ inbound = {}
        /\ IF ~form_ok
           THEN /\ resp' = InboundReturn(c, "form", SpeakHangupXml(UnexpectedErrorText),
                                         call_to_sip_mapping)
                /\ UNCHANGED inbound
           ELSE /\ c \notin inbound
                /\ inbound' = inbound \cup {c}
                /\ resp' = InboundParked(c, "receive", call_to_sip_mapping)
        /\ UNCHANGED <<call_to_sip_mapping, bot_procs, pending>>

\* lines 109-134: the request arrives, the form is read, create_daily_room is awaited
InboundReceive(form_ok, call_uuid, from_number, to_number) ==
    LET c == Coroutine("create_daily_room", call_uuid, from_number, to_number,
                       NoRoom, None, None, << >>)
    IN  /\ inbound = {}     \* the model follows one call set-up at a time; the
                         \* other requests interleave at its awaits
        /\ IF ~form_ok
           THEN /\ resp' = InboundReturn(c, "form", SpeakHangupXml(UnexpectedErrorText),
                                         call_to_sip_mapping)
                /\ UNCHANGED inbound
           ELSE IF ~Truthy(call_uuid)
           THEN /\ resp' = InboundReturn(c, "receive", SpeakHangupXml(ProcessingErrorText),
                                         call_to_sip_mapping)
                /\ UNCHANGED inbound
           ELSE /\ c \notin inbound
                /\ inbound' = inbound \cup {c}
                /\ resp' = InboundParked(c, "receive", call_to_sip_mapping)
        /\ UNCHANGED <<call_to_sip_mapping, bot_procs, pending>>

\* variant: a failed room creation does not end the run
InboundRoom_FailContinues(c, outcome, name) ==
    /\ c \in inbound /\ c.pc = "create_daily_room"
    /\ LET t == Append(c.trace, "create_daily_room")
       IN  IF outcome = "raise"
           THEN /\ inbound' = inbound \ {c}
                /\ resp' = InboundReturn([c EXCEPT !.trace = t], "create_daily_room",
                                         SpeakHangupXml(UnexpectedErrorText),
                                         call_to_sip_mapping)
           ELSE LET d == [c EXCEPT !.pc = "create_daily_token",
                                   !.room = IF outcome = "fail" THEN NoRoom ELSE Room(name),
                                   !.trace = t]
                IN  /\ d \notin inbound
                    /\ inbound' = (inbound \ {c}) \cup {d}
                    /\ resp' = InboundParked(d, "create_daily_room", call_to_sip_mapping)
    /\ UNCHANGED <<call_to_sip_mapping, bot_procs, pending>>

\* lines 134-146: create_daily_room returns (a room, or None on a non-200 status) or raises
InboundRoom(c, outcome, name) ==
    /\ c \in inbound /\ c.pc = "create_daily_room"
    /\ LET t == Append(c.trace, "create_daily_room")
       IN  IF outcome = "raise"
           THEN /\ inbound' = inbound \ {c}
                /\ resp' = InboundReturn([c EXCEPT !.trace = t], "create_daily_room",
                                         SpeakHangupXml(UnexpectedErrorText),
                                         call_to_sip_mapping)
           ELSE IF outcome = "fail"
           THEN /\ inbound' = inbound \ {c}
                /\ resp' = InboundReturn([c EXCEPT !.trace = t], "create_daily_room",
                                         SpeakHangupXml(RoomErrorText), call_to_sip_mapping)
           ELSE LET d == [c EXCEPT !.pc = "create_daily_token", !.room = Room(name),
                                   !.trace = t]
                IN  /\ d \notin inbound
                    /\ inbound' = (inbound \ {c}) \cup {d}
                    /\ resp' = InboundParked(d, "create_daily_room", call_to_sip_mapping)
    /\ UNCHANGED <<call_to_sip_mapping, bot_procs, pending>>

\* variant: a 200 response without a token is not treated as a failure
InboundToken_NoneContinues(c, outcome) ==
    /\ c \in inbound /\ c.pc = "create_daily_token"
    /\ LET t == Append(c.trace, "create_daily_token")
       IN  IF outcome = "raise"
           THEN /\ inbound' = inbound \ {c}
                /\ resp' = InboundReturn([c EXCEPT !.trace = t], "create_daily_token",
                                         SpeakHangupXml(UnexpectedErrorText),
                                         call_to_sip_mapping)
           ELSE IF outcome = "error"
           THEN /\ inbound' = inbound \ {c}
                /\ resp' = InboundReturn([c EXCEPT !.trace = t], "create_daily_token",
                                         SpeakHangupXml(TokenErrorText), call_to_sip_mapping)
           ELSE LET d == [c EXCEPT !.pc = "get_daily_sip_uri",
                                   !.token = IF outcome = "none" THEN None ELSE Token,
                                   !.trace = t]
                IN  /\ d \notin inbound
                    /\ inbound' = (inbound \ {c}) \cup {d}
                    /\ resp' = InboundParked(d, "create_daily_token", call_to_sip_mapping)
    /\ UNCHANGED <<call_to_sip_mapping, bot_procs, pending>>

\* lines 146-167: create_daily_token returns the token, None when the 200 response
\* has no "token", {"error": ...} on a non-200 status, or raises
InboundToken(c, outcome) ==
    /\ c \in inbound /\ c.pc = "create_daily_token"
    /\ LET t == Append(c.trace, "create_daily_token")
       IN  IF outcome = "raise"
           THEN /\ inbound' = inbound \ {c}
                /\ resp' = InboundReturn([c EXCEPT !.trace = t], "create_daily_token",
                                         SpeakHangupXml(UnexpectedErrorText),
                                         call_to_sip_mapping)
           ELSE IF outcome \in {"error", "none"}
           THEN /\ inbound' = inbound \ {c}
                /\ resp' = InboundReturn([c EXCEPT !.trace = t], "create_daily_token",
                                         SpeakHangupXml(TokenErrorText), call_to_sip_mapping)
           ELSE LET d == [c EXCEPT !.pc = "get_daily_sip_uri", !.token = Token, !.trace = t]
                IN  /\ d \notin inbound
                    /\ inbound' = (inbound \ {c}) \cup {d}
                    /\ resp' = InboundParked(d, "create_daily_token", call_to_sip_mapping)
    /\ UNCHANGED <<call_to_sip_mapping, bot_procs, pending>>

\* lines 167-240: get_daily_sip_uri returns; the mapping is written, the worker is
\* started (launch: "missing" bot.py, Popen "raises", or "started") and, only when it
\* started, asyncio.sleep(2) is awaited; otherwise the dial document is returned
InboundSip(c, outcome, endpoint, launch) ==
    /\ c \in inbound /\ c.pc = "get_daily_sip_uri"
    /\ LET t == Append(c.trace, "get_daily_sip_uri")
       IN  IF outcome = "raise"
           THEN /\ inbound' = inbound \ {c}
                /\ resp' = InboundReturn([c EXCEPT !.trace = t], "get_daily_sip_uri",
                                         SpeakHangupXml(UnexpectedErrorText),
                                         call_to_sip_mapping)
                /\ UNCHANGED <<call_to_sip_mapping, bot_procs>>
           ELSE IF outcome = "fail"
           THEN /\ inbound' = inbound \ {c}
                /\ resp' = InboundReturn([c EXCEPT !.trace = t], "get_daily_sip_uri",
                                         SpeakHangupXml(SipErrorText), call_to_sip_mapping)
                /\ UNCHANGED <<call_to_sip_mapping, bot_procs>>
           ELSE LET sip == SipUriOf(c.room.name, endpoint)
                    stored == InboundStore(call_to_sip_mapping, c.CallUUID, sip, c.From)
                    d == [c EXCEPT !.sip_uri = sip, !.trace = t \o <<"store", "launch">>]
                IN  /\ call_to_sip_mapping' = stored
                    /\ IF launch = "started"
                       THEN LET e == [d EXCEPT !.pc = "sleep"]
                            IN  /\ e \notin inbound
                                /\ Len(bot_procs) < MaxProcs
                                /\ bot_procs' = Append(bot_procs,
                                       BotArgs(c.room.url, c.token, c.From, sip))
                                /\ inbound' = (inbound \ {c}) \cup {e}
                                /\ resp' = InboundParked(e, "store", call_to_sip_mapping)
                       ELSE /\ bot_procs' = bot_procs
                            /\ inbound' = inbound \ {c}
                            /\ resp' = InboundReturn(d, "store",
                                   InboundDialXml(c.From, c.To, sip), call_to_sip_mapping)
    /\ UNCHANGED pending

\* lines 222-240: the sleep ends and the dial document is returned
InboundWake(c) ==
    /\ c \in inbound /\ c.pc = "sleep"
    /\ inbound' = inbound \ {c}
    /\ resp' = InboundReturn(c, "sleep", InboundDialXml(c.From, c.To, c.sip_uri),
                             call_to_sip_mapping)
    /\ UNCHANGED <<call_to_sip_mapping, bot_procs, pending>>

----------------------------------------------------------------------------
(* The webhooks and the administrative endpoint *)

PlivoAnswer(req) ==
    LET r == plivo_answer_handler(call_to_sip_mapping, req)
    IN  /\ call_to_sip_mapping' = r.mapping
        /\ resp' = [handler |-> "answer", returned |-> TRUE, req |-> req, doc |-> r.doc,
                    before |-> call_to_sip_mapping]
        /\ UNCHANGED <<bot_procs, inbound>>

\* the form is read outside any try: when it cannot be read the exception escapes
PlivoHangup(form_ok, call_uuid) ==
    /\ call_to_sip_mapping' =
           IF form_ok THEN plivo_hangup_handler(call_to_sip_mapping, call_uuid)
           ELSE call_to_sip_mapping
    /\ resp' = [handler |-> "hangup", returned |-> TRUE, CallUUID |-> call_uuid,
                status |-> IF form_ok THEN 200 ELSE 500, before |-> call_to_sip_mapping]
    /\ UNCHANGED <<bot_procs, inbound, pending>>

PlivoFallback(form_ok, call_uuid) ==
    /\ resp' = [handler |-> "fallback", returned |-> TRUE, CallUUID |-> call_uuid,
                status |-> IF form_ok THEN 200 ELSE 500,
                doc |-> IF form_ok THEN plivo_fallback_handler ELSE NoDoc,
                before |-> call_to_sip_mapping]
    /\ UNCHANGED <<call_to_sip_mapping, bot_procs, inbound, pending>>

StoreCallMapping(call_id, sip_uri, phone_number) ==
    LET r == store_call_mapping_endpoint(call_to_sip_mapping, call_id, sip_uri, phone_number)
    IN  /\ call_to_sip_mapping' = r.mapping
        /\ resp' = [handler |-> "store-call-mapping", returned |-> TRUE,
                    status |-> r.status, call_id |-> call_id, sip_uri |-> sip_uri,
                    phone_number |-> phone_number, before |-> call_to_sip_mapping]
        /\ UNCHANGED <<bot_procs, inbound, pending>>

----------------------------------------------------------------------------
(* The dial-out server, daily-plivo/server.py *)

\* lines 34-43 of the dial-in server: until the app shuts down the lifespan is
\* suspended at its yield; exited are the positions in bot_procs of the workers
\* that are no longer running
Serving == [phase |-> "serving", next |-> 1, exited |-> {}]

\* rooms: the rooms Daily has created for this server (POST /rooms answered 200)
NoDialout == [call_to_sip_mapping |-> << >>, bot_procs |-> << >>, runs |-> {},
              calls |-> << >>, rooms |-> {}, lifespan |-> Serving]

\* lines 276-280: every exception raised in the handler body, the HTTPException
\* of line 113 included, is caught by `except Exception` and raised again as a 500
OutboundError(status_code) == 500

\* variant: the number is stored as given only
OutboundStore_AsGivenOnly(m, phone_number, sip_uri, call_uuid) ==
    LET m1 == store_call_mapping(m, phone_number, sip_uri, phone_number)
    IN  IF Truthy(call_uuid)
        THEN store_call_mapping(m1, call_uuid, sip_uri, phone_number)
        ELSE m1

\* lines 247-254: the writes after the call was placed; call_uuid is the
\* identifier found in Plivo's response, or None
OutboundStore(m, phone_number, sip_uri, call_uuid) ==
    LET m2 == store_call_mapping(
                  store_call_mapping(m, phone_number, sip_uri, phone_number),
                  lstrip(phone_number), sip_uri, phone_number)
    IN  IF Truthy(call_uuid)
        THEN store_call_mapping(m2, call_uuid, sip_uri, phone_number)
        ELSE m2

\* lines 170-178: the worker's command line
OutboundBotArgs(room_url, token, phone_number, sip_uri) ==
    [u |-> room_url, t |-> token, n |-> phone_number, s |-> sip_uri]

\* lines 215-222: the call Plivo is asked to place
PlivoCall(from_number, phone_number) ==
    [from_ |-> from_number, to_ |-> phone_number, answer_url |-> "/plivo-answer",
     hangup_url |-> "/plivo-hangup"]

\* PLIVO_PHONE_NUMBER
PlivoPhoneNumber == P2

\* locals of one handle_outbound_call; trace lists the stages it has entered
OutboundCoroutine(pc, phone_number, room, token, sip_uri, trace) ==
    [pc |-> pc, phone_number |-> phone_number, room |-> room, token |-> token,
     sip_uri |-> sip_uri, trace |-> trace]

\* the handler raised: an HTTP error response
OutboundRaise(c, step, status_code, before) ==
    [handler |-> "outbound", returned |-> TRUE, step |-> step, call |-> c,
     status |-> OutboundError(status_code), before |-> before]

\* lines 269-274: the success body carries the room's URL and name; call_uuid is
\* the identifier found in Plivo's response (lines 225-233), or None
OutboundSuccess(c, step, call_uuid, before) ==
    [handler |-> "outbound", returned |-> TRUE, step |-> step, call |-> c,
     status |-> 200, call_uuid |-> call_uuid,
     body |-> [status |-> "success", room_url |-> c.room.url, room_name |-> c.room.name],
     before |-> before]

OutboundParked(c, step, before) ==
    [handler |-> "outbound", returned |-> FALSE, step |-> step, call |-> c,
     status |-> 0, before |-> before]

\* lines 107-119: the JSON body is read, phone_number is checked, create_daily_room
\* is awaited
OutboundReceive(json_ok, phone_number) ==
    LET c == OutboundCoroutine("create_daily_room", phone_number, NoRoom, None, None, << >>)
    IN  /\ dialout.runs = {}    \* one outbound set-up at a time
        /\ IF ~json_ok
           THEN /\ resp' = OutboundRaise(c, "json", 500, dialout)
                /\ UNCHANGED dialout
           ELSE IF ~Truthy(phone_number)
           THEN /\ resp' = OutboundRaise(c, "receive", 400, dialout)
                /\ UNCHANGED dialout
           ELSE /\ dialout' = [dialout EXCEPT !.runs = @ \cup {c}]
                /\ resp' = OutboundParked(c, "receive", dialout)
        /\ UNCHANGED <<call_to_sip_mapping, bot_procs, inbound, pending>>

\* variant: a room that could not be created is requested a second time
OutboundRoom_RetryOnce(c, outcome, name) ==
    /\ c \in dialout.runs /\ c.pc = "create_daily_room"
    /\ LET t == Append(c.trace, "create_daily_room")
       IN  IF outcome = "fail" /\ c.trace = << >>
           THEN LET d == [c EXCEPT !.trace = t]
                IN  /\ dialout' = [dialout EXCEPT !.runs = (@ \ {c}) \cup {d}]
                    /\ resp' = OutboundParked(d, "create_daily_room", dialout)
           ELSE IF outcome \in {"raise", "fail"}
           THEN /\ dialout' = [dialout EXCEPT !.runs = @ \ {c}]
                /\ resp' = OutboundRaise([c EXCEPT !.trace = t], "create_daily_room", 500,
                                         dialout)
           ELSE LET d == [c EXCEPT !.pc = "create_daily_token", !.room = Room(name),
                                   !.trace = t]
                IN  /\ dialout' = [dialout EXCEPT !.runs = (@ \ {c}) \cup {d},
                                                  !.rooms = @ \cup {Room(name)}]
                    /\ resp' = OutboundParked(d, "create_daily_room", dialout)
    /\ UNCHANGED <<call_to_sip_mapping, bot_procs, inbound, pending>>

\* lines 119-129: create_daily_room returns a room or None, or raises
OutboundRoom(c, outcome, name) ==
    /\ c \in dialout.runs /\ c.pc = "create_daily_room"
    /\ LET t == Append(c.trace, "create_daily_room")
       IN  IF outcome \in {"raise", "fail"}
           THEN /\ dialout' = [dialout EXCEPT !.runs = @ \ {c}]
                /\ resp' = OutboundRaise([c EXCEPT !.trace = t], "create_daily_room", 500,
                                         dialout)
           ELSE LET d == [c EXCEPT !.pc = "create_daily_token", !.room = Room(name),
                                   !.trace = t]
                IN  /\ dialout' = [dialout EXCEPT !.runs = (@ \ {c}) \cup {d},
                                                  !.rooms = @ \cup {Room(name)}]
                    /\ resp' = OutboundParked(d, "create_daily_room", dialout)
    /\ UNCHANGED <<call_to_sip_mapping, bot_procs, inbound, pending>>

\* lines 129-146: create_daily_token returns the token, None, {"error": ...}, or raises
OutboundToken(c, outcome) ==
    /\ c \in dialout.runs /\ c.pc = "create_daily_token"
    /\ LET t == Append(c.trace, "create_daily_token")
       IN  IF outcome \in {"raise", "error", "none"}
           THEN /\ dialout' = [dialout EXCEPT !.runs = @ \ {c}]
                /\ resp' = OutboundRaise([c EXCEPT !.trace = t], "create_daily_token", 500,
                                         dialout)
           ELSE LET d == [c EXCEPT !.pc = "get_daily_sip_uri", !.token = Token, !.trace = t]
                IN  /\ dialout' = [dialout EXCEPT !.runs = (@ \ {c}) \cup {d}]
                    /\ resp' = OutboundParked(d, "create_daily_token", dialout)
    /\ UNCHANGED <<call_to_sip_mapping, bot_procs, inbound, pending>>

\* variant: a worker that cannot be started is only logged, as in the dial-in server
OutboundSip_ContinueAnyway(c, outcome, endpoint, launch) ==
    /\ c \in dialout.runs /\ c.pc = "get_daily_sip_uri"
    /\ LET t == Append(c.trace, "get_daily_sip_uri")
       IN  IF outcome \in {"raise", "fail"}
           THEN /\ dialout' = [dialout EXCEPT !.runs = @ \ {c}]
                /\ resp' = OutboundRaise([c EXCEPT !.trace = t], "get_daily_sip_uri", 500,
                                         dialout)
           ELSE LET sip == SipUriOf(c.room.name, endpoint)
                    e == [c EXCEPT !.sip_uri = sip, !.trace = Append(t, "launch"),
                                   !.pc = "sleep"]
                IN  /\ Len(dialout.bot_procs) < MaxProcs
                    /\ dialout' = [dialout EXCEPT
                           !.bot_procs = IF launch = "started"
                                         THEN Append(@, OutboundBotArgs(c.room.url,
                                                  c.token, c.phone_number, sip))
                                         ELSE @,
                           !.runs = (@ \ {c}) \cup {e}]
                    /\ resp' = OutboundParked(e, "launch", dialout)
    /\ UNCHANGED <<call_to_sip_mapping, bot_procs, inbound, pending>>

\* lines 146-197: get_daily_sip_uri returns; the worker is started (launch: bot.py
\* "missing", Popen "raises", or "started") and asyncio.sleep(5) is awaited; a
\* worker that cannot be started ends the request
OutboundSip(c, outcome, endpoint, launch) ==
    /\ c \in dialout.runs /\ c.pc = "get_daily_sip_uri"
    /\ LET t == Append(c.trace, "get_daily_sip_uri")
       IN  IF outcome \in {"raise", "fail"}
           THEN /\ dialout' = [dialout EXCEPT !.runs = @ \ {c}]
                /\ resp' = OutboundRaise([c EXCEPT !.trace = t], "get_daily_sip_uri", 500,
                                         dialout)
           ELSE LET sip == SipUriOf(c.room.name, endpoint)
                    d == [c EXCEPT !.sip_uri = sip, !.trace = Append(t, "launch")]
                IN  IF launch = "started"
                    THEN LET e == [d EXCEPT !.pc = "sleep"]
                         IN  /\ Len(dialout.bot_procs) < MaxProcs
                             /\ dialout' = [dialout EXCEPT
                                    !.bot_procs = Append(@, OutboundBotArgs(c.room.url,
                                                      c.token, c.phone_number, sip)),
                                    !.runs = (@ \ {c}) \cup {e}]
                             /\ resp' = OutboundParked(e, "launch", dialout)
                    ELSE /\ dialout' = [dialout EXCEPT !.runs = @ \ {c}]
                         /\ resp' = OutboundRaise(d, "launch", 500, dialout)
    /\ UNCHANGED <<call_to_sip_mapping, bot_procs, inbound, pending>>

\* variant: the mapping is written before Plivo is asked to place the call
OutboundWake_StoreFirst(c, configured, outcome, call_uuid) ==
    /\ c \in dialout.runs /\ c.pc = "sleep"
    /\ LET t == Append(c.trace, "sleep")
           stored == OutboundStore(dialout.call_to_sip_mapping, c.phone_number,
                                   c.sip_uri, None)
       IN  IF ~configured
           THEN /\ dialout' = [dialout EXCEPT !.runs = @ \ {c}]
                /\ resp' = OutboundRaise([c EXCEPT !.trace = t], "credentials", 500, dialout)
           ELSE IF outcome = "raise"
           THEN /\ dialout' = [dialout EXCEPT !.runs = @ \ {c},
                                              !.call_to_sip_mapping = stored]
                /\ resp' = OutboundRaise(
                               [c EXCEPT !.trace = t \o <<"store", "calls.create">>],
                               "calls.create", 500, dialout)
           ELSE LET d == [c EXCEPT !.trace = t \o <<"store", "calls.create">>]
                IN  /\ dialout' = [dialout EXCEPT
                           !.calls = Append(@, PlivoCall(PlivoPhoneNumber, c.phone_number)),
                           !.call_to_sip_mapping = stored,
                           !.runs = @ \ {c}]
                    /\ resp' = OutboundSuccess(d, "store", call_uuid, dialout)
    /\ UNCHANGED <<call_to_sip_mapping, bot_procs, inbound, pending>>

\* variant: when the call cannot be placed the worker and the room are given up
OutboundWake_Rollback(c, configured, outcome, call_uuid) ==
    /\ c \in dialout.runs /\ c.pc = "sleep"
    /\ LET t == Append(c.trace, "sleep")
       IN  IF ~configured \/ outcome = "raise"
           THEN /\ dialout' = [dialout EXCEPT
                       !.runs = @ \ {c},
                       !.rooms = @ \ {c.room},
                       !.bot_procs = SelectSeq(@, LAMBDA p : p.s # c.sip_uri)]
                /\ resp' = OutboundRaise([c EXCEPT !.trace = Append(t, "calls.create")],
                                         "calls.create", 500, dialout)
           ELSE LET d == [c EXCEPT !.trace = t \o <<"calls.create", "store">>]
                IN  /\ dialout' = [dialout EXCEPT
                           !.calls = Append(@, PlivoCall(PlivoPhoneNumber, c.phone_number)),
                           !.call_to_sip_mapping =
                               OutboundStore(@, c.phone_number, c.sip_uri, call_uuid),
                           !.runs = @ \ {c}]
                    /\ resp' = OutboundSuccess(d, "store", call_uuid, dialout)
    /\ UNCHANGED <<call_to_sip_mapping, bot_procs, inbound, pending>>

\* variant: the handler awaits between calls.create and the writes
OutboundWake_AwaitBeforeStore(c, configured, outcome, call_uuid) ==
    /\ c \in dialout.runs /\ c.pc \in {"sleep", "store"}
    /\ LET t == Append(c.trace, "sleep")
       IN  IF c.pc = "store"
           THEN /\ dialout' = [dialout EXCEPT
                       !.call_to_sip_mapping =
                           OutboundStore(@, c.phone_number, c.sip_uri, call_uuid),
                       !.runs = @ \ {c}]
                /\ resp' = OutboundSuccess([c EXCEPT !.trace = Append(@, "store")],
                                           "store", call_uuid, dialout)
           ELSE IF ~configured
           THEN /\ dialout' = [dialout EXCEPT !.runs = @ \ {c}]
                /\ resp' = OutboundRaise([c EXCEPT !.trace = t], "credentials", 500, dialout)
           ELSE IF outcome = "raise"
           THEN /\ dialout' = [dialout EXCEPT !.runs = @ \ {c}]
                /\ resp' = OutboundRaise([c EXCEPT !.trace = Append(t, "calls.create")],
                                         "calls.create", 500, dialout)
           ELSE LET d == [c EXCEPT !.trace = Append(t, "calls.create"), !.pc = "store"]
                IN  /\ dialout' = [dialout EXCEPT
                           !.calls = Append(@, PlivoCall(PlivoPhoneNumber, c.phone_number)),
                           !.runs = (@ \ {c}) \cup {d}]
                    /\ resp' = OutboundParked(d, "calls.create", dialout)
    /\ UNCHANGED <<call_to_sip_mapping, bot_procs, inbound, pending>>

\* lines 190-274: the sleep ends; without Plivo credentials the request ends;
\* otherwise calls.create is called (it returns with call_uuid in its response, or
\* raises), the mapping is written and the success body is returned
OutboundWake(c, configured, outcome, call_uuid) ==
    /\ c \in dialout.runs /\ c.pc = "sleep"
    /\ LET t == Append(c.trace, "sleep")
       IN  IF ~configured
           THEN /\ dialout' = [dialout EXCEPT !.runs = @ \ {c}]
                /\ resp' = OutboundRaise([c EXCEPT !.trace = t], "credentials", 500, dialout)
           ELSE IF outcome = "raise"
           THEN /\ dialout' = [dialout EXCEPT !.runs = @ \ {c}]
                /\ resp' = OutboundRaise([c EXCEPT !.trace = Append(t, "calls.create")],
                                         "calls.create", 500, dialout)
           ELSE LET d == [c EXCEPT !.trace = t \o <<"calls.create", "store">>]
                IN  /\ dialout' = [dialout EXCEPT
                           !.calls = Append(@, PlivoCall(PlivoPhoneNumber, c.phone_number)),
                           !.call_to_sip_mapping =
                               OutboundStore(@, c.phone_number, c.sip_uri, call_uuid),
                           !.runs = @ \ {c}]
                    /\ resp' = OutboundSuccess(d, "store", call_uuid, dialout)
    /\ UNCHANGED <<call_to_sip_mapping, bot_procs, inbound, pending>>

\* the dial-out server's /plivo-answer route: plivo_answer_handler on its mapping
DialoutAnswer(req) ==
    LET r == plivo_answer_handler(dialout.call_to_sip_mapping, req)
    IN  /\ dialout' = [dialout EXCEPT !.call_to_sip_mapping = r.mapping]
        /\ resp' = [handler |-> "dialout-answer", returned |-> TRUE, req |-> req,
                    doc |-> r.doc, before |-> dialout]
        /\ UNCHANGED <<call_to_sip_mapping, bot_procs, inbound, pending>>

----------------------------------------------------------------------------
(* The server: requests arrive in any order and interleave at the awaits *)

InUUIDs == {None, A, B}
InFroms == {None, P1}
InTos == {P2}

AdminSip == <<"sip:", "adm">>

\* Daily names each room it creates; the model names the room after the call it is
\* created for, and Daily's configuration of room "x" has a SIP endpoint while that
\* of room "y" has none
RoomNameFor(call_uuid) == IF call_uuid = A THEN <<"x">> ELSE <<"y">>

EndpointFor(room_name) == IF room_name = <<"x">> THEN Endpoint(room_name) ELSE None

\* the answer webhooks of the calls above: Plivo's UUID for the call may differ
WebhookRequests ==
    {AnswerRequest(TRUE, u, P1, t, None) : u \in {A, B}, t \in {P1, P2}}

AdminRequests == {<<A, AdminSip, P1>>, <<A, None, P1>>}

Init ==
    /\ call_to_sip_mapping = << >>
    /\ bot_procs = << >>
    /\ inbound = {}
    /\ pending = NoRequest
    /\ dialout = NoDialout
    /\ lifespan = Serving
    /\ resp = NoResp

Next ==
    \/ \E ok \in BOOLEAN, u \in InUUIDs, f \in InFroms, t \in InTos :
           InboundReceive(ok, u, f, t) /\ UNCHANGED <<dialout, lifespan>>
    \/ \E c \in inbound, o \in {"raise", "fail", "ok"} :
           InboundRoom(c, o, RoomNameFor(c.CallUUID)) /\ UNCHANGED <<dialout, lifespan>>
    \/ \E c \in inbound, o \in {"raise", "error", "none", "token"} :
           InboundToken(c, o) /\ UNCHANGED <<dialout, lifespan>>
    \/ \E c \in inbound, o \in {"raise", "fail", "ok"},
          l \in {"missing", "raises", "started"} :
           InboundSip(c, o, EndpointFor(c.room.name), l) /\ UNCHANGED <<dialout, lifespan>>
    \/ \E c \in inbound : InboundWake(c) /\ UNCHANGED <<dialout, lifespan>>
    \/ \E req \in WebhookRequests : PlivoAnswer(req) /\ UNCHANGED <<pending, dialout, lifespan>>
    \/ \E ok \in BOOLEAN, u \in {A} : PlivoHangup(ok, u) /\ UNCHANGED <<dialout, lifespan>>
    \/ \E ok \in BOOLEAN, u \in {None, A} : PlivoFallback(ok, u) /\ UNCHANGED <<dialout, lifespan>>
    \/ \E r \in AdminRequests : StoreCallMapping(r[1], r[2], r[3]) /\ UNCHANGED <<dialout, lifespan>>

Spec == Init /\ [][Next]_vars

----------------------------------------------------------------------------
(* The lifespan of the dial-in server: it serves call set-ups, whose workers *)
(* may exit on their own, until the app shuts down; the code after the yield *)
(* then terminates and waits for each entry of bot_procs in turn.            *)

\* variant: the worker is terminated but not waited for
Terminate_NoWait(ls, i) == [ls EXCEPT !.next = i + 1]

\* lines 38-40, one turn of the loop: proc.terminate(); proc.wait() returns when
\* the worker has exited
Terminate(ls, i) == [ls EXCEPT !.exited = @ \cup {i}, !.next = i + 1]

LifespanStep(what) == [handler |-> "lifespan", returned |-> FALSE, step |-> what]

\* a worker exits on its own; its handle stays in bot_procs
WorkerExit(i) ==
    /\ i \in 1..Len(bot_procs) /\ i \notin lifespan.exited
    /\ lifespan' = [lifespan EXCEPT !.exited = @ \cup {i}]
    /\ resp' = LifespanStep("exit")
    /\ UNCHANGED <<call_to_sip_mapping, bot_procs, inbound, pending, dialout>>

\* line 36: the server has finished the requests in flight and resumes the
\* lifespan after its yield
ShutdownBegin ==
    /\ lifespan.phase = "serving" /\ inbound = {}
    /\ lifespan' = [lifespan EXCEPT !.phase = "shutdown", !.next = 1]
    /\ resp' = LifespanStep("shutdown")
    /\ UNCHANGED <<call_to_sip_mapping, bot_procs, inbound, pending, dialout>>

\* lines 38-40: the loop over bot_procs; it ends when every entry had its turn
ShutdownStep ==
    /\ lifespan.phase = "shutdown"
    /\ lifespan' = IF lifespan.next <= Len(bot_procs)
                   THEN Terminate(lifespan, lifespan.next)
                   ELSE [lifespan EXCEPT !.phase = "stopped"]
    /\ resp' = LifespanStep("terminate")
    /\ UNCHANGED <<call_to_sip_mapping, bot_procs, inbound, pending, dialout>>

\* the same lifespan (src/daily-plivo/server.py, lines 34-40) in the dial-out
\* server, over its own bot_procs
DialoutWorkerExit(i) ==
    /\ i \in 1..Len(dialout.bot_procs) /\ i \notin dialout.lifespan.exited
    /\ dialout' = [dialout EXCEPT !.lifespan.exited = @ \cup {i}]
    /\ resp' = LifespanStep("dialout-exit")
    /\ UNCHANGED <<call_to_sip_mapping, bot_procs, inbound, pending, lifespan>>

DialoutShutdownBegin ==
    /\ dialout.lifespan.phase = "serving" /\ dialout.runs = {}
    /\ dialout' = [dialout EXCEPT !.lifespan.phase = "shutdown", !.lifespan.next = 1]
    /\ resp' = LifespanStep("dialout-shutdown")
    /\ UNCHANGED <<call_to_sip_mapping, bot_procs, inbound, pending, lifespan>>

DialoutShutdownStep ==
    /\ dialout.lifespan.phase = "shutdown"
    /\ dialout' = [dialout EXCEPT !.lifespan =
                       IF @.next <= Len(dialout.bot_procs)
                       THEN Terminate(@, @.next)
                       ELSE [@ EXCEPT !.phase = "stopped"]]
    /\ resp' = LifespanStep("dialout-terminate")
    /\ UNCHANGED <<call_to_sip_mapping, bot_procs, inbound, pending, lifespan>>

NextLifespan ==
    \/ \E f \in InFroms :
           /\ lifespan.phase = "serving"
           /\ InboundReceive(TRUE, A, f, P2) /\ UNCHANGED <<dialout, lifespan>>
    \/ \E c \in inbound, o \in {"fail", "ok"} :
           InboundRoom(c, o, RoomNameFor(c.CallUUID)) /\ UNCHANGED <<dialout, lifespan>>
    \/ \E c \in inbound, o \in {"error", "token"} :
           InboundToken(c, o) /\ UNCHANGED <<dialout, lifespan>>
    \/ \E c \in inbound, o \in {"fail", "ok"}, l \in {"missing", "raises", "started"} :
           InboundSip(c, o, EndpointFor(c.room.name), l) /\ UNCHANGED <<dialout, lifespan>>
    \/ \E c \in inbound : InboundWake(c) /\ UNCHANGED <<dialout, lifespan>>
    \/ /\ dialout.lifespan.phase = "serving"
       /\ OutboundReceive(TRUE, P1) /\ UNCHANGED lifespan
    \/ \E c \in dialout.runs :
           OutboundRoom(c, "ok", RoomNameFor(c.phone_number)) /\ UNCHANGED lifespan
    \/ \E c \in dialout.runs : OutboundToken(c, "token") /\ UNCHANGED lifespan
    \/ \E c \in dialout.runs, l \in {"raises", "started"} :
           OutboundSip(c, "ok", EndpointFor(c.room.name), l) /\ UNCHANGED lifespan
    \/ \E c \in dialout.runs, o \in {"raise", "ok"} :
           OutboundWake(c, TRUE, o, B) /\ UNCHANGED lifespan
    \/ \E i \in 1..Len(bot_procs) : WorkerExit(i)
    \/ ShutdownBegin
    \/ ShutdownStep
    \/ \E i \in 1..Len(dialout.bot_procs) : DialoutWorkerExit(i)
    \/ DialoutShutdownBegin
    \/ DialoutShutdownStep

SpecLifespan == Init /\ [][NextLifespan]_vars

----------------------------------------------------------------------------
(* get_daily_sip_uri on its own: one resolution per behaviour, over the      *)
(* responses Daily can give for a room.                                      *)

SipRooms == {<<"x">>, <<"y">>, <<"x", "y">>, A}

SipStatuses == {200, 401, 404, 429, 500}

\* config.sip_uri.endpoint in the body: missing or null, empty, or an address
SipEndpoints == {None, EmptyStr, Endpoint(<<"x">>), Endpoint(<<"y">>)}

SipRequest(room_name, status, endpoint) ==
    [room_name |-> room_name, status |-> status, endpoint |-> endpoint]

SipResolve ==
    /\ pending # NoRequest
    /\ resp' = [handler |-> "get_daily_sip_uri", returned |-> TRUE, req |-> pending,
                sip_uri |-> get_daily_sip_uri(pending.room_name, pending.status,
                                              pending.endpoint)]
    /\ pending' = NoRequest
    /\ UNCHANGED <<call_to_sip_mapping, bot_procs, inbound, dialout, lifespan>>

InitSip ==
    /\ call_to_sip_mapping = << >>
    /\ pending \in {SipRequest(r, st, e) : r \in SipRooms, st \in SipStatuses,
                                           e \in SipEndpoints}
    /\ bot_procs = << >>
    /\ inbound = {}
    /\ dialout = NoDialout
    /\ lifespan = Serving
    /\ resp = NoResp

NextSip == SipResolve

SpecSip == InitSip /\ [][NextSip]_vars

----------------------------------------------------------------------------
(* The mapping store under concurrent requests: store_call_mapping through   *)
(* the administrative endpoint, get_call_mapping through the answer webhook's *)
(* call_id lookup, del through the hangup webhook.  Each runs between two    *)
(* awaits of the event loop, so the requests interleave as whole steps.      *)

\* the requests that each write one key of their own
MaxPuts == 3

PutKey(i) == <<"k", ToString(i)>>

PutKeys == {PutKey(i) : i \in 1..MaxPuts}

PutSip(k) == <<"sip:">> \o k

PutPhone(k) == IF k = PutKey(1) THEN N1 ELSE P1

\* the keys the other requests write, overwrite and remove
OtherKeys == {A, B}

NextStore ==
    \/ \E k \in PutKeys :
           StoreCallMapping(k, PutSip(k), PutPhone(k)) /\ UNCHANGED <<dialout, lifespan>>
    \/ \E k \in OtherKeys, s \in {AdminSip, PutSip(A)} :
           StoreCallMapping(k, s, P1) /\ UNCHANGED <<dialout, lifespan>>
    \/ \E u \in OtherKeys : PlivoHangup(TRUE, u) /\ UNCHANGED <<dialout, lifespan>>
    \/ \E k \in PutKeys \cup OtherKeys :
           PlivoAnswer(AnswerRequest(TRUE, None, None, None, k))
               /\ UNCHANGED <<pending, dialout, lifespan>>

SpecStore == Init /\ [][NextStore]_vars

----------------------------------------------------------------------------
(* The call set-ups of the two servers: handle_inbound_call of the dial-in   *)
(* server and handle_outbound_call of the dial-out server, each stepping     *)
(* through its awaits.                                                      *)

OutPhones == {None, EmptyStr, N1, P1}

\* the answer webhooks of the calls the dial-out server places: To is the called
\* number, CallUUID is Plivo's identifier of the call
DialoutWebhooks ==
    {AnswerRequest(TRUE, u, PlivoPhoneNumber, t, None) : u \in {A, B}, t \in {N1, P1}}

NextSetup ==
    \/ \E ok \in BOOLEAN, u \in {None, A}, f \in InFroms, t \in InTos :
           InboundReceive(ok, u, f, t) /\ UNCHANGED <<dialout, lifespan>>
    \/ \E c \in inbound, o \in {"raise", "fail", "ok"} :
           InboundRoom(c, o, RoomNameFor(c.CallUUID)) /\ UNCHANGED <<dialout, lifespan>>
    \/ \E c \in inbound, o \in {"raise", "error", "none", "token"} :
           InboundToken(c, o) /\ UNCHANGED <<dialout, lifespan>>
    \/ \E c \in inbound, o \in {"raise", "fail", "ok"},
          l \in {"missing", "raises", "started"} :
           InboundSip(c, o, EndpointFor(c.room.name), l) /\ UNCHANGED <<dialout, lifespan>>
    \/ \E c \in inbound : InboundWake(c) /\ UNCHANGED <<dialout, lifespan>>
    \/ \E ok \in BOOLEAN, p \in OutPhones : OutboundReceive(ok, p) /\ UNCHANGED lifespan
    \/ \E c \in dialout.runs, o \in {"raise", "fail", "ok"} :
           OutboundRoom(c, o, RoomNameFor(c.phone_number)) /\ UNCHANGED lifespan
    \/ \E c \in dialout.runs, o \in {"raise", "error", "none", "token"} :
           OutboundToken(c, o) /\ UNCHANGED lifespan
    \/ \E c \in dialout.runs, o \in {"raise", "fail", "ok"},
          l \in {"missing", "raises", "started"} :
           OutboundSip(c, o, EndpointFor(c.room.name), l) /\ UNCHANGED lifespan
    \/ \E c \in dialout.runs, cfg \in BOOLEAN, o \in {"raise", "ok"}, u \in {None, B} :
           OutboundWake(c, cfg, o, u) /\ UNCHANGED lifespan
    \/ \E req \in WebhookRequests : PlivoAnswer(req) /\ UNCHANGED <<pending, dialout, lifespan>>
    \/ \E req \in DialoutWebhooks : DialoutAnswer(req) /\ UNCHANGED lifespan

SpecSetup == Init /\ [][NextSetup]_vars

----------------------------------------------------------------------------
(* The answer webhook alone, over every mapping that a few requests can     *)
(* leave behind and every combination of its fields.                        *)

\* requests that wrote or cleaned the mapping before the webhook arrives
MaxWrites == 3

SipFor(call_uuid) ==
    SipUriOf(RoomNameFor(call_uuid), EndpointFor(RoomNameFor(call_uuid)))

\* the mappings one more request can make of m: an inbound set-up, an
\* administrative write, a hangup
AfterOneRequest(m) ==
    {InboundStore(m, u, SipFor(u), f) : u \in {A, B}, f \in {None, N1, P1, PP1}}
    \cup {store_call_mapping_endpoint(m, k, AdminSip, p).mapping :
              k \in {B, P1}, p \in {N1, P1}}
    \cup {plivo_hangup_handler(m, u) : u \in {A, N1, P1}}

RECURSIVE MappingsAfter(_)
MappingsAfter(n) ==
    IF n = 0 THEN {<< >>}
    ELSE LET prev == MappingsAfter(n - 1)
         IN  prev \cup UNION {AfterOneRequest(m) : m \in prev}

AnswerRequests ==
    {AnswerRequest(TRUE, u, f, t, c) :
        u \in {None, EmptyStr, A, B}, f \in {None, EmptyStr, P1},
        t \in {None, EmptyStr, N1, P1, PP1}, c \in {None, EmptyStr, A}}
    \cup {AnswerRequest(FALSE, None, None, None, None)}

\* the webhook that was received is processed
AnswerPending ==
    /\ pending \in AnswerRequests
    /\ PlivoAnswer(pending)

InitAnswer ==
    /\ call_to_sip_mapping \in MappingsAfter(MaxWrites)
    /\ pending \in AnswerRequests
    /\ bot_procs = << >>
    /\ inbound = {}
    /\ dialout = NoDialout
    /\ lifespan = Serving
    /\ resp = NoResp

NextAnswer == AnswerPending /\ pending' = NoRequest /\ UNCHANGED <<dialout, lifespan>>

SpecAnswer == InitAnswer /\ [][NextAnswer]_vars

----------------------------------------------------------------------------
(* The lookup as the specification states it (section 4.1, resolve): a       *)
(* fallback chain over the mapping m in dict order, written from the text   *)
(* and independent of LookupMapping.                                        *)

IsStr(x) == x # None

\* "equal after stripping '+' from whichever side has it"
SameNumber(stored_phone, to_number) ==
    \/ stored_phone = to_number
    \/ /\ IsStr(stored_phone) /\ IsStr(to_number)
       /\ \/ stored_phone = lstrip(to_number)
          \/ lstrip(stored_phone) = to_number

EntryAt(m, k) == m[IndexOf(m, k)]

ScanHits(m, to_number) == {i \in 1..Len(m) : SameNumber(m[i].phone_number, to_number)}

FirstScanHit(m, to_number) ==
    CHOOSE i \in ScanHits(m, to_number) : \A j \in ScanHits(m, to_number) : i <= j

\* the step of the chain that hits first: 1..5, or 0 when every step misses
ResolveStep(m, call_id, call_uuid, to_number) ==
    IF Truthy(call_id) /\ call_id \in Keys(m) THEN 1
    ELSE IF Truthy(call_uuid) /\ call_uuid \in Keys(m) THEN 2
    ELSE IF Truthy(to_number) /\ to_number \in Keys(m) THEN 3
    ELSE IF Truthy(to_number) /\ lstrip(to_number) \in Keys(m) THEN 4
    ELSE IF ScanHits(m, to_number) # {} THEN 5
    ELSE 0

\* the record of that step
Resolve(m, call_id, call_uuid, to_number) ==
    LET step == ResolveStep(m, call_id, call_uuid, to_number)
    IN  IF step = 1 THEN Mapping(EntryAt(m, call_id))
        ELSE IF step = 2 THEN Mapping(EntryAt(m, call_uuid))
        ELSE IF step = 3 THEN Mapping(EntryAt(m, to_number))
        ELSE IF step = 4 THEN Mapping(EntryAt(m, lstrip(to_number)))
        ELSE IF step = 5 THEN Mapping(m[FirstScanHit(m, to_number)])
        ELSE NoMapping

Answered == resp.handler = "answer" /\ resp.req.form_ok

AnsweredStep == IF Answered
                THEN ResolveStep(resp.before, resp.req.call_id, resp.req.CallUUID, resp.req.To)
                ELSE -1

AnsweredRecord == Resolve(resp.before, resp.req.call_id, resp.req.CallUUID, resp.req.To)

IsErrorDoc(doc) == doc.kind = "SpeakHangup" /\ doc.speak = AnswerErrorText

----------------------------------------------------------------------------
\* C1: for every mapping and every answer webhook with a To number, the webhook
\* bridges to the record of the first step of the chain that hits (call_id,
\* CallUUID, To, To without '+', first stored record with the same number up to
\* '+'), and returns the error document only when every step misses.
C1_FirstHitWins ==
    (Answered /\ IsStr(resp.req.To)) =>
        IF AnsweredStep = 0 THEN IsErrorDoc(resp.doc)
        ELSE resp.doc.kind = "Dial" /\ resp.doc.user = AnsweredRecord.sip_uri

----------------------------------------------------------------------------
Falsy(x) == ~Truthy(x)

\* a request that carries k in one identifier only and no number
OnlyCallId(req, k) == req.call_id = k /\ Falsy(req.CallUUID) /\ Falsy(req.To)

OnlyCallUUID(req, k) == req.CallUUID = k /\ Falsy(req.call_id) /\ Falsy(req.To)

\* a record is stored under k and no stored number matches the empty query
StoredUnder(m, k, to_number) == k \in Keys(m) /\ ScanHits(m, to_number) = {}

\* C2 as stated: a record stored under the key "a" is found when "a" is given as
\* the call_id, and is not found when "a" is given only as the CallUUID.
C2_DistinctKeySpaces ==
    (Answered /\ StoredUnder(resp.before, A, resp.req.To)) =>
        /\ OnlyCallId(resp.req, A) => resp.doc.kind = "Dial"
        /\ OnlyCallUUID(resp.req, A) => IsErrorDoc(resp.doc)

\* C2 as amended: call_id and CallUUID are looked up in the same dict, so a
\* record stored under the key "a" is found, and bridged to, both when "a" is
\* given as the call_id and when it is given only as the CallUUID.
C2_SharedKeySpace ==
    (Answered /\ StoredUnder(resp.before, A, resp.req.To)
              /\ (OnlyCallId(resp.req, A) \/ OnlyCallUUID(resp.req, A))) =>
        /\ resp.doc.kind = "Dial"
        /\ resp.doc.user = EntryAt(resp.before, A).sip_uri

C2_Witness ==
    /\ Answered /\ StoredUnder(resp.before, A, resp.req.To)
    /\ OnlyCallUUID(resp.req, A)
    /\ resp.doc.kind = "Dial"

----------------------------------------------------------------------------
NoIdentifiers(req) == Falsy(req.call_id) /\ Falsy(req.CallUUID)

----------------------------------------------------------------------------
HasPlus(x) == IsStr(x) /\ x # EmptyStr /\ Head(x) = "+"

\* one number is the other with a '+' in front
PlusApart(x, y) ==
    \/ HasPlus(x) /\ ~HasPlus(y) /\ IsStr(y) /\ Tail(x) = y
    \/ HasPlus(y) /\ ~HasPlus(x) /\ IsStr(x) /\ Tail(y) = x

\* no key of the mapping is the value, as given or without its '+'
NoKeyFor(m, x) == Falsy(x) \/ (x \notin Keys(m) /\ lstrip(x) \notin Keys(m))

\* C4: when no key of the mapping equals an identifier or the To number in either
\* form, a stored record whose phone number is the To number with the '+' added
\* or removed is found by the scan (the call is bridged to a record with that
\* number), and the scan finds nothing when no stored number equals To up to '+'.
C4_ScanTolerance ==
    (/\ Answered /\ IsStr(resp.req.To)
     /\ NoKeyFor(resp.before, resp.req.call_id)
     /\ NoKeyFor(resp.before, resp.req.CallUUID)
     /\ NoKeyFor(resp.before, resp.req.To)) =>
        /\ (\E i \in 1..Len(resp.before) :
                PlusApart(resp.before[i].phone_number, resp.req.To))
             => /\ resp.doc.kind = "Dial"
                /\ \E i \in ScanHits(resp.before, resp.req.To) :
                       resp.before[i].sip_uri = resp.doc.user
        /\ ScanHits(resp.before, resp.req.To) = {} => IsErrorDoc(resp.doc)

----------------------------------------------------------------------------
\* the inbound set-up whose step was the last one
SetUp == resp.call

\* the last step wrote the mapping of an inbound call
JustStored == resp.handler = "inbound" /\ resp.step = "store"

\* the answer webhook of the call c, from Plivo, under another CallUUID
AnswerOf(req, c) ==
    /\ req.form_ok /\ req.From = c.From /\ req.To = c.To
    /\ Falsy(req.call_id) /\ req.CallUUID # c.CallUUID

\* C5: once an inbound call from F to T is set up, its answer webhook (From = F,
\* To = T), arriving under another CallUUID and without call_id, is bridged to
\* the SIP URI stored for the call.
C5_AnswerAfterInbound ==
    [][(/\ JustStored /\ Truthy(SetUp.From)
        /\ resp'.handler = "answer" /\ AnswerOf(resp'.req, SetUp)
        /\ resp'.req.CallUUID \notin Keys(call_to_sip_mapping))
       => (resp'.doc.kind = "Dial" /\ resp'.doc.user = SetUp.sip_uri)]_vars

----------------------------------------------------------------------------
WellFormed(doc) ==
    \/ /\ doc.kind = "Dial"
       /\ doc.callerId # None /\ doc.user # None /\ doc.user # EmptyStr
       /\ doc.timeout > 0 /\ doc.speak = ""
    \/ /\ doc.kind = "SpeakHangup"
       /\ doc.speak # "" /\ doc.callerId = None /\ doc.user = None

\* the code's lookup raised (AttributeError), or the form could not be read
AnswerRaised ==
    /\ resp.handler = "answer"
    /\ \/ ~resp.req.form_ok
       \/ LookupMapping(resp.before, resp.req.call_id, resp.req.CallUUID, resp.req.To).raised

\* C6: whatever the mapping and whichever of CallUUID, call_id, From and To are
\* present, empty or absent, the answer webhook returns a document, a dial
\* instruction or a spoken message followed by a hangup; no exception escapes.
C6_AlwaysADocument ==
    resp.handler = "answer" => (resp.returned /\ WellFormed(resp.doc))

C6_Witness ==
    /\ AnswerRaised /\ resp.req.form_ok /\ resp.req.To = None
    /\ resp.doc.kind = "SpeakHangup"

----------------------------------------------------------------------------
\* C7: when every step of the lookup misses, in particular on an empty mapping,
\* the answer webhook returns exactly <Speak>Sorry, there was an error connecting
\* your call.</Speak><Hangup/> and the mapping is what it was.
C7_MissIsErrorDocument ==
    (Answered /\ AnsweredStep = 0) =>
        /\ resp.doc = SpeakHangupXml("Sorry, there was an error connecting your call.")
        /\ call_to_sip_mapping = resp.before

C7_Witness ==
    /\ Answered /\ AnsweredStep = 0
    /\ resp.before # << >>
    /\ Truthy(resp.req.call_id) /\ Truthy(resp.req.CallUUID) /\ Truthy(resp.req.To)
    /\ ~AnswerRaised
    /\ IsErrorDoc(resp.doc)

----------------------------------------------------------------------------
\* a step of the chain that reads the mapping by key hits
KeyHit == AnsweredStep \in 1..4

\* C8: when the lookup hits, the answer webhook returns a dial document whose
\* <User> is the sip_uri of the record found, whose callerId is the From number
\* and whose timeout is 30, and the mapping is what it was; a hit by key always
\* yields it.
C8_HitIsDialDocument ==
    Answered =>
        /\ KeyHit => resp.doc.kind = "Dial"
        /\ resp.doc.kind = "Dial" =>
              /\ AnsweredStep # 0
              /\ resp.doc.user = AnsweredRecord.sip_uri
              /\ IsStr(resp.req.From) => resp.doc.callerId = resp.req.From
              /\ resp.doc.timeout = 30
              /\ call_to_sip_mapping = resp.before

C8_Witness ==
    /\ Answered /\ AnsweredStep = 5
    /\ resp.doc.kind = "Dial" /\ resp.req.From = P1
    /\ Len(resp.before) > 1

----------------------------------------------------------------------------
Hungup == resp.handler = "hangup" /\ resp.status = 200

WithoutKey(m, k) == SelectSeq(m, LAMBDA e : e.key # k)

\* C9: after the hangup webhook of CallUUID u, u is not a key of the mapping;
\* every other entry, the number keys of the same call among them, is there
\* unchanged and in place, and a lookup by such a number still finds its record.
C9_HangupRemovesOnlyUUID ==
    Hungup =>
        /\ ~get_call_mapping(call_to_sip_mapping, resp.CallUUID).found
        /\ call_to_sip_mapping = WithoutKey(resp.before, resp.CallUUID)
        /\ \A k \in Keys(resp.before) \ {resp.CallUUID} :
              /\ get_call_mapping(call_to_sip_mapping, k) = get_call_mapping(resp.before, k)
              /\ Truthy(k) =>
                    LookupMapping(call_to_sip_mapping, None, None, k).mapping
                        = Mapping(EntryAt(resp.before, k))

C9_Witness ==
    /\ Hungup /\ resp.CallUUID \in Keys(resp.before)
    /\ \E k \in Keys(call_to_sip_mapping) :
          /\ EntryAt(call_to_sip_mapping, k).sip_uri
                 = EntryAt(resp.before, resp.CallUUID).sip_uri
          /\ EntryAt(call_to_sip_mapping, k).phone_number = k

----------------------------------------------------------------------------
\* the inbound handler returned after every stage up to the writes succeeded
SetUpReturned ==
    /\ resp.handler = "inbound" /\ resp.returned
    /\ resp.step \in {"store", "sleep"}

\* C10: an inbound set-up with CallUUID u, caller F and SIP URI s resolved for
\* its room writes {sip_uri: s, phone_number: F} under u, so that an exact lookup
\* of u after the writes returns it, and returns the dial document with callerId
\* F and <User> s.
C10_InboundSetUp ==
    /\ JustStored =>
          /\ SetUp.sip_uri = SipUriOf(SetUp.room.name, EndpointFor(SetUp.room.name))
          /\ get_call_mapping(call_to_sip_mapping, SetUp.CallUUID)
                 = [found |-> TRUE, sip_uri |-> SetUp.sip_uri, phone_number |-> SetUp.From]
    /\ SetUpReturned =>
          /\ resp.doc.kind = "Dial"
          /\ resp.doc.user = SetUp.sip_uri
          /\ Truthy(SetUp.From) => resp.doc.callerId = SetUp.From

C10_Witness ==
    /\ JustStored /\ SetUpReturned
    /\ SetUp.CallUUID = A /\ SetUp.From = P1
    /\ resp.doc.kind = "Dial" /\ resp.doc.callerId = P1
    /\ get_call_mapping(call_to_sip_mapping, A).phone_number = P1

----------------------------------------------------------------------------
\* the carrier's identifiers of the calls the model follows
CallUUIDs == {A, B}

\* the keys of m under which the call u is indexed: its UUID and its number with
\* and without '+', as far as they carry the call's SIP URI
CallKeys(m, u) ==
    LET e == EntryAt(m, u)
    IN  {k \in Keys(m) :
            /\ k \in {u} \cup (IF Truthy(e.phone_number)
                               THEN {e.phone_number, lstrip(e.phone_number)} ELSE {})
            /\ EntryAt(m, k).sip_uri = e.sip_uri}

\* C11: once a call's record is written, the SIP URI reachable under each of the
\* call's keys does not change while the call has not been hung up: a step that
\* does not remove the call's UUID leaves every one of its keys in place with
\* the same SIP URI.
C11_SipUriImmutable ==
    [][\A u \in CallUUIDs \cap Keys(call_to_sip_mapping) :
           u \in Keys(call_to_sip_mapping') =>
               \A k \in CallKeys(call_to_sip_mapping, u) :
                   /\ k \in Keys(call_to_sip_mapping')
                   /\ EntryAt(call_to_sip_mapping', k).sip_uri
                          = EntryAt(call_to_sip_mapping, k).sip_uri]_vars

----------------------------------------------------------------------------
\* the call u was set up by handle_inbound_call and has not been hung up: its
\* UUID carries the SIP URI of the room created for it
InProgress(u) ==
    /\ u \in Keys(call_to_sip_mapping)
    /\ EntryAt(call_to_sip_mapping, u).sip_uri = SipFor(u)

\* C12: in every reachable state, every key under which a call in progress is
\* indexed (its UUID, its number with and without '+') maps to a record with
\* that call's SIP URI, also when calls share a phone number.
C12_KeysAgree ==
    \A u \in CallUUIDs :
        InProgress(u) /\ Truthy(EntryAt(call_to_sip_mapping, u).phone_number) =>
            LET p == EntryAt(call_to_sip_mapping, u).phone_number
            IN  \A k \in {p, lstrip(p)} \cap Keys(call_to_sip_mapping) :
                    EntryAt(call_to_sip_mapping, k).sip_uri = SipFor(u)

----------------------------------------------------------------------------
\* handle_inbound_call read a notification that carries no CallUUID
NoUUIDNotification ==
    /\ resp.handler = "inbound" /\ resp.step = "receive"
    /\ ~Truthy(resp.call.CallUUID)

\* C13: an inbound notification with no CallUUID returns the "processing error"
\* document (spoken message, then hangup) and does nothing else: no room, token
\* or SIP URI is requested, the mapping is not written and no worker is launched.
C13_NoUUIDFailsFast ==
    [][NoUUIDNotification' =>
           /\ resp'.returned
           /\ resp'.doc.kind = "SpeakHangup"
           /\ resp'.doc.speak = "Sorry, there was an error processing your call."
           /\ resp'.call.trace = << >>
           /\ \A c \in inbound' : Truthy(c.CallUUID)
           /\ UNCHANGED <<call_to_sip_mapping, bot_procs, inbound>>]_vars

C13_Witness ==
    /\ NoUUIDNotification /\ resp.returned
    /\ call_to_sip_mapping # << >> /\ bot_procs # << >>
    /\ resp.before = call_to_sip_mapping

----------------------------------------------------------------------------
InboundReturned == resp.handler = "inbound" /\ resp.returned

\* the stages of the run that returned: the room, the token and the SIP URI were
\* obtained; the worker was started (the handler slept before it returned)
ProvisioningSucceeded ==
    /\ resp.call.room # NoRoom
    /\ Truthy(resp.call.token)
    /\ Truthy(resp.call.sip_uri)

LaunchSucceeded == resp.step = "sleep"

IsApology == resp.doc.kind = "SpeakHangup" /\ resp.doc.speak # ""

----------------------------------------------------------------------------
\* handle_outbound_call read a request whose phone_number is missing or empty
MissingNumber ==
    /\ resp.handler = "outbound" /\ resp.step = "receive"
    /\ ~Truthy(resp.call.phone_number)

\* C15: an outbound call request whose phone_number is missing or empty is
\* answered with a client error (4xx), and nothing else happens: no room is
\* created, no worker is launched, no call is placed, the mapping is unchanged.
C15_MissingNumberIsClientError ==
    [][MissingNumber' =>
           /\ resp'.returned
           /\ resp'.status \in 400..499
           /\ resp'.call.trace = << >>
           /\ UNCHANGED dialout]_vars

----------------------------------------------------------------------------
\* the fallback webhook ran on the form fields it was sent
FallbackAnswered == resp.handler = "fallback" /\ resp.status = 200

\* C16: the fallback webhook returns the same fixed terminal document (the
\* spoken "unable to connect ... try again later" message, then hangup) whatever
\* CallUUID it is sent, and leaves the mapping and the worker list unchanged.
C16_FallbackFixed ==
    [][resp'.handler = "fallback" =>
           /\ UNCHANGED <<call_to_sip_mapping, bot_procs>>
           /\ resp'.before = call_to_sip_mapping
           /\ FallbackAnswered' =>
                  /\ resp'.doc.kind = "SpeakHangup"
                  /\ resp'.doc.speak =
                         "We're sorry, but we're unable to connect your call at this time. Please try again later."
                  /\ resp'.doc.callerId = None /\ resp'.doc.user = None]_vars

C16_Witness ==
    /\ FallbackAnswered /\ resp.CallUUID = A
    /\ resp.doc.kind = "SpeakHangup"
    /\ A \in Keys(call_to_sip_mapping) /\ bot_procs # << >>

----------------------------------------------------------------------------
Stored(k) == resp.handler = "store-call-mapping" /\ resp.status = 200 /\ resp.call_id = k

PutRecord(k) == [found |-> TRUE, sip_uri |-> PutSip(k), phone_number |-> PutPhone(k)]

\* C17: concurrent puts on distinct keys, interleaved in any order with each
\* other and with lookups and removals of other keys, lose no update: from the
\* step at which the put of a key returns, an exact lookup of that key returns
\* the record written for it, and the answer webhook's lookup bridges to it.
C17_NoLostUpdate ==
    [][\A k \in PutKeys :
           /\ (k \in Keys(call_to_sip_mapping) \/ Stored(k)') =>
                  get_call_mapping(call_to_sip_mapping', k) = PutRecord(k)
           /\ (k \in Keys(call_to_sip_mapping) /\ resp'.handler = "answer"
                   /\ resp'.req.call_id = k) =>
                  resp'.doc.kind = "Dial" /\ resp'.doc.user = PutSip(k)]_vars

\* every put has returned, in an order other than that of the keys, and a
\* removal of another key has just run
C17_Witness ==
    /\ PutKeys \subseteq Keys(call_to_sip_mapping)
    /\ IndexOf(call_to_sip_mapping, PutKey(MaxPuts)) < IndexOf(call_to_sip_mapping, PutKey(1))
    /\ resp.handler = "hangup" /\ resp.CallUUID \in Keys(resp.before)
    /\ \A k \in PutKeys : get_call_mapping(call_to_sip_mapping, k) = PutRecord(k)

----------------------------------------------------------------------------
Removed == resp.handler = "hangup" /\ resp.status = 200

\* C18: put(k, s, p) followed by an exact lookup of k returns {s, p}, replaces a
\* record that was under k and leaves every other key unchanged; removing a
\* present key deletes only that key, removing an absent key changes nothing.
C18_PutGetRemove ==
    /\ (resp.handler = "store-call-mapping" /\ resp.status = 200) =>
          /\ get_call_mapping(call_to_sip_mapping, resp.call_id)
                 = [found |-> TRUE, sip_uri |-> resp.sip_uri,
                    phone_number |-> resp.phone_number]
          /\ Keys(call_to_sip_mapping) = Keys(resp.before) \cup {resp.call_id}
          /\ Len(call_to_sip_mapping) = Cardinality(Keys(call_to_sip_mapping))
          /\ \A k \in Keys(resp.before) \ {resp.call_id} :
                get_call_mapping(call_to_sip_mapping, k) = get_call_mapping(resp.before, k)
    /\ Removed =>
          IF resp.CallUUID \in Keys(resp.before)
          THEN /\ Keys(call_to_sip_mapping) = Keys(resp.before) \ {resp.CallUUID}
               /\ Len(call_to_sip_mapping) = Len(resp.before) - 1
               /\ \A k \in Keys(call_to_sip_mapping) :
                     get_call_mapping(call_to_sip_mapping, k)
                         = get_call_mapping(resp.before, k)
          ELSE call_to_sip_mapping = resp.before

\* a put that replaced a record with another SIP URI while other keys are stored
C18_Witness ==
    /\ resp.handler = "store-call-mapping" /\ resp.status = 200
    /\ resp.call_id \in Keys(resp.before)
    /\ get_call_mapping(resp.before, resp.call_id).sip_uri # resp.sip_uri
    /\ Len(call_to_sip_mapping) > 2
    /\ IndexOf(call_to_sip_mapping, resp.call_id) < Len(call_to_sip_mapping)

----------------------------------------------------------------------------
IsPrefix(t, order) == Len(t) <= Len(order) /\ t = SubSeq(order, 1, Len(t))

\* the stages a set-up run has entered, the settling delay left out
Stages(t) == SelectSeq(t, LAMBDA x : x # "sleep")

\* some record of m carries the SIP URI s
Written(m, s) == \E i \in 1..Len(m) : m[i].sip_uri = s

\* the dial-out run started its worker and is in its settling delay
OutboundLaunched == resp.handler = "outbound" /\ resp.step = "launch" /\ ~resp.returned

----------------------------------------------------------------------------
\* the worker of the run that has just been answered is among the launched ones
WorkerOf(procs, call) ==
    \E i \in 1..Len(procs) :
        /\ procs[i].s = call.sip_uri
        /\ procs[i].n = call.phone_number
        /\ procs[i].u = call.room.url

\* C20: in the outbound flow the call-control request is issued only after the
\* worker was launched and the settling delay has elapsed: a step that places a
\* call belongs to a run that was in its delay, with its worker launched; a run
\* whose worker cannot be launched (executable missing, spawn failing) ends
\* with an error and places no call.
C20_CallAfterLaunch ==
    [][/\ dialout'.calls # dialout.calls =>
              /\ resp'.handler = "outbound"
              /\ \E c \in dialout.runs :
                     /\ c.pc = "sleep" /\ c.sip_uri = resp'.call.sip_uri
                     /\ c.trace = <<"create_daily_room", "create_daily_token",
                                    "get_daily_sip_uri", "launch">>
              /\ WorkerOf(dialout.bot_procs, resp'.call)
              /\ dialout'.calls = Append(dialout.calls,
                                         PlivoCall(PlivoPhoneNumber, resp'.call.phone_number))
       /\ (resp'.handler = "outbound" /\ resp'.step = "launch" /\ resp'.returned) =>
              /\ resp'.status >= 500
              /\ dialout'.calls = dialout.calls
              /\ dialout'.bot_procs = dialout.bot_procs
       /\ \A c \in dialout'.runs :
              c.pc = "sleep" => WorkerOf(dialout'.bot_procs, c)]_vars

\* the call to +1 was placed for a run whose worker had been launched
C20_Witness ==
    /\ resp.handler = "outbound" /\ resp.status = 200
    /\ dialout.calls = <<PlivoCall(PlivoPhoneNumber, P1)>>
    /\ WorkerOf(dialout.bot_procs, resp.call)
    /\ resp.before.calls = << >>

----------------------------------------------------------------------------
ProvisioningOrder == <<"create_daily_room", "create_daily_token", "get_daily_sip_uri">>

\* a set-up run, of either flow, ended at a provisioning stage
ProvisioningEnded ==
    /\ resp.handler \in {"inbound", "outbound"} /\ resp.returned
    /\ \E i \in 1..3 : resp.step = ProvisioningOrder[i]

\* a run is past a provisioning stage only with what the stage provides
PastStagesSucceeded(c) ==
    /\ c.pc \in {"create_daily_token", "get_daily_sip_uri", "sleep"} => c.room # NoRoom
    /\ c.pc \in {"get_daily_sip_uri", "sleep"} => Truthy(c.token)
    /\ c.pc = "sleep" => Truthy(c.sip_uri)

\* the run that ended attempted no stage after the one it ended at, and wrote,
\* launched and placed nothing
ShortCircuit ==
    /\ ProvisioningEnded' =>
          /\ \E i \in 1..3 : /\ resp'.step = ProvisioningOrder[i]
                              /\ resp'.call.trace = SubSeq(ProvisioningOrder, 1, i)
          /\ UNCHANGED <<call_to_sip_mapping, bot_procs>>
          /\ dialout'.call_to_sip_mapping = dialout.call_to_sip_mapping
          /\ dialout'.bot_procs = dialout.bot_procs
          /\ dialout'.calls = dialout.calls
          /\ resp'.handler = "outbound" => resp'.status >= 500
    /\ \A c \in inbound' \cup dialout'.runs : PastStagesSucceeded(c)

UnableToConnectTexts ==
    {"Sorry, we're unable to connect your call at this time. Please try again later.",
     "Sorry, we're unable to connect your call. Please try again later."}

\* the document of the handler's `except`, for a stage that raised
RaisedText == "Sorry, there was an error processing your call. Please try again later."

\* C21 as stated: in both flows a failed provisioning stage ends the run, no
\* later stage is attempted, nothing is written, launched or placed, and the
\* inbound flow answers with the terminal "unable to connect" document.
C21_ShortCircuitUnableToConnect ==
    [][/\ ShortCircuit
       /\ (ProvisioningEnded' /\ resp'.handler = "inbound") =>
              /\ resp'.doc.kind = "SpeakHangup"
              /\ resp'.doc.speak \in UnableToConnectTexts \cup {RaisedText}]_vars

\* C21 as amended: the same, and the inbound flow answers with a terminal
\* document that is "unable to connect" after a failed room creation or SIP URI
\* resolution and "error setting up your call" after a failed token minting
\* ("error processing your call" when the stage raised).
C21_ShortCircuitTerminal ==
    [][/\ ShortCircuit
       /\ (ProvisioningEnded' /\ resp'.handler = "inbound") =>
              /\ resp'.doc.kind = "SpeakHangup"
              /\ resp'.doc.speak \in
                     IF resp'.step = "create_daily_token"
                     THEN {"Sorry, there was an error setting up your call.", RaisedText}
                     ELSE UnableToConnectTexts \cup {RaisedText}]_vars

\* the token could not be minted for an inbound call while a mapping is stored
C21_Witness ==
    /\ ProvisioningEnded /\ resp.handler = "inbound"
    /\ resp.step = "create_daily_token"
    /\ resp.doc.speak = "Sorry, there was an error setting up your call."
    /\ call_to_sip_mapping # << >>

----------------------------------------------------------------------------
\* the keys one call set-up writes: the call's identifier, when there is one,
\* and its number with and without '+', when there is one
SetupKeys(call_uuid, number) ==
    (IF Truthy(call_uuid) THEN {call_uuid} ELSE {})
    \cup (IF Truthy(number) THEN {number, lstrip(number)} ELSE {})

HasAll(m, keys, sip_uri) ==
    \A k \in keys : k \in Keys(m) /\ EntryAt(m, k).sip_uri = sip_uri

\* C22: the multi-key write of one call set-up is atomic relative to concurrent
\* lookups: the mapping changes only in a single step of a set-up run, which had
\* written nothing before and after which all of the call's keys are written;
\* an answer webhook runs as a step of its own and so never observes some but
\* not all of a call's keys.
C22_AtomicMultiKeyWrite ==
    [][/\ call_to_sip_mapping' # call_to_sip_mapping =>
              /\ resp'.handler = "inbound" /\ resp'.step = "store"
              /\ \E c \in inbound : /\ c.pc = "get_daily_sip_uri"
                                     /\ c.CallUUID = resp'.call.CallUUID
                                     /\ c.sip_uri = None
              /\ HasAll(call_to_sip_mapping',
                        SetupKeys(resp'.call.CallUUID, resp'.call.From),
                        resp'.call.sip_uri)
       /\ dialout'.call_to_sip_mapping # dialout.call_to_sip_mapping =>
              /\ resp'.handler = "outbound" /\ resp'.step = "store"
              /\ HasAll(dialout'.call_to_sip_mapping,
                        SetupKeys(resp'.call_uuid, resp'.call.phone_number),
                        resp'.call.sip_uri)
       /\ resp'.handler = "answer" => resp'.before = call_to_sip_mapping'
       /\ resp'.handler = "dialout-answer" =>
              resp'.before.call_to_sip_mapping = dialout'.call_to_sip_mapping]_vars

\* an answer webhook that ran while an inbound set-up was in flight, after the
\* three keys of an earlier call had been written
C22_Witness ==
    /\ resp.handler = "answer"
    /\ \E c \in inbound : c.pc = "create_daily_token"
    /\ Keys(call_to_sip_mapping) = {A, P1, N1}

----------------------------------------------------------------------------
OutboundSucceeded == resp.handler = "outbound" /\ resp.status = 200

\* C23: after a successful outbound call request to the number N with the
\* resolved SIP URI s, the mapping holds {sip_uri: s, phone_number: N} under N as
\* given, under N without its leading '+' and, when Plivo's response carried a
\* call identifier, under that identifier; the response is the success
\* acknowledgment with the room's URL and name.
C23_OutboundStored ==
    OutboundSucceeded =>
        LET N == resp.call.phone_number
            name == RoomNameFor(N)
            s == SipUriOf(name, EndpointFor(name))
            rec == [found |-> TRUE, sip_uri |-> s, phone_number |-> N]
            m == dialout.call_to_sip_mapping
        IN  /\ get_call_mapping(m, N) = rec
            /\ get_call_mapping(m, IF Head(N) = "+" THEN Tail(N) ELSE N) = rec
            /\ Truthy(resp.call_uuid) => get_call_mapping(m, resp.call_uuid) = rec
            /\ Keys(m) \ Keys(resp.before.call_to_sip_mapping)
                   \subseteq {N, Tail(N), resp.call_uuid}
            /\ resp.body.status = "success"
            /\ resp.body.room_url = <<"https://r/">> \o name
            /\ resp.body.room_name = name

C23_Witness ==
    /\ OutboundSucceeded
    /\ resp.call.phone_number = P1 /\ resp.call_uuid = B
    /\ Keys(dialout.call_to_sip_mapping) = {P1, N1, B}

----------------------------------------------------------------------------
\* a dial-out run ended at the room, token, SIP URI, launch or call-control stage
OutboundFailed ==
    /\ resp.handler = "outbound" /\ resp.returned /\ resp.status # 200
    /\ resp.step \notin {"json", "receive"}

\* C24: in the outbound flow a failure of room creation, token minting, SIP URI
\* resolution, worker launch or the call-control request yields a server error,
\* writes nothing to the mapping and rolls nothing back: the room that was
\* created still exists, and a worker that was launched stays in bot_procs.
C24_NoRollback ==
    [][OutboundFailed' =>
           /\ resp'.status \in 500..599
           /\ dialout'.call_to_sip_mapping = dialout.call_to_sip_mapping
           /\ dialout'.calls = dialout.calls
           /\ dialout'.rooms = dialout.rooms
           /\ resp'.call.room # NoRoom => resp'.call.room \in dialout'.rooms
           /\ dialout'.bot_procs = dialout.bot_procs
           /\ resp'.step \in {"credentials", "calls.create"} =>
                  WorkerOf(dialout'.bot_procs, resp'.call)]_vars

\* the call could not be placed: the room and the worker are still there
C24_Witness ==
    /\ OutboundFailed /\ resp.step = "calls.create"
    /\ resp.call.room \in dialout.rooms
    /\ WorkerOf(dialout.bot_procs, resp.call)
    /\ dialout.call_to_sip_mapping = << >>

----------------------------------------------------------------------------
----------------------------------------------------------------------------
\* C26: no stage is retried: in the trace of every inbound and outbound run, be
\* it in flight or just ended, room creation, token minting, SIP URI resolution,
\* the worker launch and the call-control request each occur at most once,
\* whatever their outcomes were.
AttemptedOnce(t) == \A i, j \in 1..Len(t) : t[i] = t[j] => i = j

C26_NoStageRetried ==
    /\ \A c \in inbound \cup dialout.runs : AttemptedOnce(c.trace)
    /\ resp.handler \in {"inbound", "outbound"} => AttemptedOnce(resp.call.trace)

\* an outbound run ended on a failed stage after earlier stages had succeeded,
\* and an inbound run is in flight past its own provisioning
C26_Witness ==
    /\ resp.handler = "outbound" /\ resp.returned /\ resp.status = 500
    /\ Len(resp.call.trace) >= 2
    /\ \E c \in inbound : Len(c.trace) >= 3

----------------------------------------------------------------------------
\* C27: SIP URI resolution for room r returns "sip:" followed by the endpoint
\* when the room's configuration gives one (a missing, null or empty endpoint is
\* none), the fallback "sip:r@sip.daily.co" when a 200 response gives none, and
\* no URI (None) on every other status.
SipResolved == resp.handler = "get_daily_sip_uri" /\ resp.returned

C27_SipUriResolution ==
    SipResolved =>
        /\ resp.req.status = 200 /\ resp.req.endpoint \notin {None, EmptyStr} =>
               resp.sip_uri = <<"sip:">> \o resp.req.endpoint
        /\ resp.req.status = 200 /\ resp.req.endpoint \in {None, EmptyStr} =>
               resp.sip_uri = <<"sip:">> \o resp.req.room_name \o <<"@sip.daily.co">>
        /\ resp.req.status # 200 => resp.sip_uri = None

\* a 200 response without an endpoint was resolved to the fallback
C27_Witness ==
    /\ SipResolved /\ resp.req.status = 200 /\ resp.req.endpoint = None
    /\ resp.sip_uri = <<"sip:">> \o resp.req.room_name \o <<"@sip.daily.co">>

----------------------------------------------------------------------------
\* C28: in the outbound flow no other handler runs between the call-control
\* request and the writes: the step that places a call also writes its number
\* keys (and its UUID key, when Plivo's response gave one), so every answer
\* webhook the dial-out server processes for a number it has called finds the
\* record and is answered with the dial document.
NumberKeys(call) == {call.to_, lstrip(call.to_)}

PlacedCalls(d) == {d.calls[i] : i \in 1..Len(d.calls)}

C28_WritesWithCallPlacement ==
    [][/\ \A call \in PlacedCalls(dialout') \ PlacedCalls(dialout) :
              /\ NumberKeys(call) \subseteq Keys(dialout'.call_to_sip_mapping)
              /\ resp'.handler = "outbound" /\ resp'.status = 200
              /\ Truthy(resp'.call_uuid) =>
                     resp'.call_uuid \in Keys(dialout'.call_to_sip_mapping)
       /\ resp'.handler = "dialout-answer" /\ resp'.req.form_ok
              /\ (\E call \in PlacedCalls(dialout) : resp'.req.To \in NumberKeys(call))
          => resp'.doc.kind = "Dial"]_vars

\* an answer webhook for a called number, with a CallUUID the store does not
\* have as a key, was answered with the dial document
C28_Witness ==
    /\ resp.handler = "dialout-answer"
    /\ \E call \in PlacedCalls(resp.before) : resp.req.To \in NumberKeys(call)
    /\ resp.req.CallUUID \notin Keys(resp.before.call_to_sip_mapping)
    /\ resp.doc.kind = "Dial"

----------------------------------------------------------------------------
\* C29: an answer webhook whose To is absent or empty, and whose call_id and
\* CallUUID are not keys of the store, never bridges to a stored call: whatever
\* the store holds (records written by an inbound set-up without From included)
\* it is answered with the error document.
NoNumberNoKey ==
    /\ resp.handler = "answer" /\ resp.returned /\ resp.req.form_ok
    /\ resp.req.To \in {None, EmptyStr}
    /\ resp.req.call_id \notin Keys(resp.before)
    /\ resp.req.CallUUID \notin Keys(resp.before)

C29_NoNumberNeverBridges ==
    NoNumberNoKey => resp.doc = SpeakHangupXml(AnswerErrorText)

----------------------------------------------------------------------------
\* C30: the writes of an inbound set-up: without From exactly the entry under
\* the CallUUID is written; with From exactly the entries under the CallUUID,
\* under From and under From without its '+', each with phone_number equal to
\* From as received and the call's SIP URI; every other key of the store keeps
\* its entry.
InboundStoreStep == resp'.handler = "inbound" /\ resp'.step = "store"

InboundWritten(c) ==
    IF Truthy(c.From) THEN {c.CallUUID, c.From, lstrip(c.From)} ELSE {c.CallUUID}

C30_InboundWritesExactly ==
    [][InboundStoreStep =>
          LET c == resp'.call
          IN  /\ Keys(call_to_sip_mapping') = Keys(call_to_sip_mapping) \cup InboundWritten(c)
              /\ Len(call_to_sip_mapping') = Cardinality(Keys(call_to_sip_mapping'))
              /\ \A k \in InboundWritten(c) :
                     get_call_mapping(call_to_sip_mapping', k) =
                         [found |-> TRUE, sip_uri |-> c.sip_uri, phone_number |-> c.From]
              /\ \A k \in Keys(call_to_sip_mapping) \ InboundWritten(c) :
                     get_call_mapping(call_to_sip_mapping', k) =
                         get_call_mapping(call_to_sip_mapping, k)]_vars

\* a set-up with From has written its three keys next to the entry of an
\* earlier call, which is as it was
C30_Witness ==
    /\ resp.handler = "inbound" /\ resp.step = "store" /\ Truthy(resp.call.From)
    /\ Cardinality(InboundWritten(resp.call)) = 3
    /\ InboundWritten(resp.call) \subseteq Keys(call_to_sip_mapping)
    /\ \E k \in Keys(resp.before) \ InboundWritten(resp.call) :
           get_call_mapping(call_to_sip_mapping, k) = get_call_mapping(resp.before, k)

====
